---------------------------- MODULE Spec2Model ----------------------------
(***************************************************************************)
(* A model of the text buffer and viewport engine of the "red" editor:     *)
(* TextLine / TextRow (a line's text and its cached rendering),            *)
(* TextDocument (lines, cursor, edit and motion operations) and the        *)
(* Editor's viewport handling (scroll, desired column, key dispatch).      *)
(*                                                                         *)
(* A character is a string naming it; a text is a sequence of characters.  *)
(* Python indices are 0-based, TLA+ sequences 1-based: s[i] of the source  *)
(* is s[i+1] here.                                                         *)
(***************************************************************************)
EXTENDS Integers, Sequences, FiniteSets, TLC

(***************************************************************************)
(* Bounds of the model.                                                    *)
(***************************************************************************)
\* most lines a document grows to under Spec / SpecLoad / SpecPair
MaxLines == 2
\* most characters a document grows to under Spec / SpecLoad / SpecPair
MaxChars == 2
\* most characters of a line under SpecLine and SpecView
MaxText == 3

(***************************************************************************)
(* Characters and the wcwidth library.                                     *)
(***************************************************************************)
TAB == "\t"
NL == "\n"
CR == "\r"
\* a double-width glyph, a combining mark (width 0), a control character
WIDE == "han"
COMBINING == "acute"
CONTROL == "bel"

Max(a, b) == IF a >= b THEN a ELSE b
Min(a, b) == IF a <= b THEN a ELSE b

\* wcwidth.wcwidth: -1 for control characters (tab, newline included),
\* 0 for combining marks, 2 for wide East Asian glyphs, 1 otherwise
wcwidth(ch) ==
    CASE ch \in {TAB, NL, CR, CONTROL} -> -1
      [] ch = COMBINING -> 0
      [] ch = WIDE -> 2
      [] OTHER -> 1

\* wcwidth.wcswidth: the sum of the widths, -1 as soon as one is negative
RECURSIVE wcswidth(_)
wcswidth(s) ==
    IF s = << >> THEN 0
    ELSE LET w == wcwidth(Head(s))
             r == wcswidth(Tail(s))
         IN  IF w < 0 \/ r < 0 THEN -1 ELSE w + r

\* str.isspace of one character
isspace(ch) == ch \in {" ", TAB, NL, CR}

\* str.isspace of a text: non-empty and all whitespace
text_isspace(s) == s # << >> /\ \A i \in 1..Len(s) : isspace(s[i])

(***************************************************************************)
(* Python sequence primitives.                                             *)
(***************************************************************************)
\* s[i] raises IndexError unless -len <= i < len
PyIndexOk(s, i) == -Len(s) <= i /\ i < Len(s)
\* s[i], negative i counting from the end
PyGet(s, i) == IF i >= 0 THEN s[i+1] ELSE s[Len(s) + i + 1]
\* s[:k] and s[k:] for k >= 0 (a slice never raises, it clamps)
PyPrefix(s, k) == SubSeq(s, 1, Min(k, Len(s)))
PySuffix(s, k) == SubSeq(s, Min(k, Len(s)) + 1, Len(s))

RECURSIVE SumSeq(_)
SumSeq(s) == IF s = << >> THEN 0 ELSE Head(s) + SumSeq(Tail(s))

(***************************************************************************)
(* Cells.                                                                  *)
(***************************************************************************)
TAB_SIZE == 8

Cell(char, style) == [char |-> char, style |-> style]
WCHAR_RIGHT == Cell(<<"<">>, "WCHAR_RIGHT")

\* n copies of a cell
Repeat(c, n) == [i \in 1..n |-> c]


(***************************************************************************)
(* TextLine (document.py) and TextRow (__init__.py): a line's text with    *)
(* its cached rendering.  A line object is a record                        *)
(*   [cls, text, rendered_widths, cells].                                  *)
(***************************************************************************)
\* the cells of a tab without the slice: all TAB_SIZE of them
TabCells_unsliced(ws_char, style, tab_size) ==
    [i \in 1..TAB_SIZE |->
        Cell(IF i = 1 THEN <<"rsaquo">> ELSE <<ws_char>>, style)]

\* the tab_chars[:tab_size] cells of one tab
TabCells(ws_char, style, tab_size) ==
    [i \in 1..tab_size |->
        Cell(IF i = 1 THEN <<"rsaquo">> ELSE <<ws_char>>, style)]

\* the inner while loop of TextLine._render: the end of a cluster made of
\* one character and the zero-width characters that follow it
RECURSIVE cluster_end(_, _)
cluster_end(text, end_idx) ==
    IF end_idx < Len(text) /\ wcwidth(text[end_idx + 1]) = 0
    THEN cluster_end(text, end_idx + 1)
    ELSE end_idx

\* the while loop of TextLine._render, from (idx, x) with the cells and
\* widths produced so far
RECURSIVE TextLine_render_loop(_, _, _, _, _)
TextLine_render_loop(text, idx, x, cells, widths) ==
    LET ws_char == IF text_isspace(text) THEN "middot" ELSE " " IN
    IF idx >= Len(text) THEN [cells |-> cells, rendered_widths |-> widths]
    ELSE IF text[idx + 1] = TAB THEN
        LET tab_size == TAB_SIZE - (x % TAB_SIZE) IN
        TextLine_render_loop(text, idx + 1, x,
            cells \o TabCells(ws_char, "HL_TAB", tab_size),
            Append(widths, tab_size))
    ELSE IF isspace(text[idx + 1]) THEN
        LET w == wcwidth(text[idx + 1]) IN
        IF w > 0
        THEN TextLine_render_loop(text, idx + 1, x + w,
                cells \o Repeat(Cell(<<ws_char>>, "HL_WHITESPACE"), w),
                Append(widths, w))
        ELSE TextLine_render_loop(text, idx + 1, x, cells, widths)
    ELSE
        LET end_idx == cluster_end(text, idx + 1)
            cell_text == SubSeq(text, idx + 1, end_idx)
            w == wcswidth(cell_text)
        IN  IF w > 0
            THEN TextLine_render_loop(text, end_idx, x + w,
                    (cells \o <<Cell(cell_text, "HL_NORMAL")>>)
                        \o (IF w = 2 THEN <<WCHAR_RIGHT>> ELSE << >>),
                    Append(widths, w))
            ELSE TextLine_render_loop(text, end_idx, x, cells, widths)

\* TextLine._render: the cells and widths of a text
TextLine_render(text) == TextLine_render_loop(text, 0, 0, << >>, << >>)

\* the for loop of TextRow._render
RECURSIVE TextRow_render_loop(_, _, _, _, _)
TextRow_render_loop(text, idx, x, cells, widths) ==
    LET text_is_ws == text_isspace(text) IN
    IF idx >= Len(text) THEN [cells |-> cells, rendered_widths |-> widths]
    ELSE
        LET ch == text[idx + 1]
            ch_w == wcwidth(ch)
        IN  IF ch = TAB THEN
                LET tab_size == TAB_SIZE - (x % TAB_SIZE) IN
                TextRow_render_loop(text, idx + 1, x,
                    cells \o TabCells(" ", "HL_WHITESPACE", tab_size),
                    Append(widths, tab_size))
            ELSE IF text_is_ws /\ ch_w > 0 THEN
                TextRow_render_loop(text, idx + 1, x + ch_w,
                    cells \o Repeat(Cell(<<"middot">>, "HL_WHITESPACE"), ch_w),
                    Append(widths, ch_w))
            ELSE IF ch_w > 0 THEN
                TextRow_render_loop(text, idx + 1, x + ch_w,
                    (cells \o <<Cell(<<ch>>, "HL_NORMAL")>>)
                        \o (IF ch_w = 2 THEN <<WCHAR_RIGHT>> ELSE << >>),
                    Append(widths, ch_w))
            ELSE TextRow_render_loop(text, idx + 1, x, cells, widths)

\* TextRow._render
TextRow_render(text) == TextRow_render_loop(text, 0, 0, << >>, << >>)

\* _render of the line's class
render(cls, text) ==
    IF cls = "TextLine" THEN TextLine_render(text) ELSE TextRow_render(text)

\* TextLine.__init__ / TextRow.__init__: store the text, render it
NewLine(cls, s) ==
    LET r == render(cls, s) IN
    [cls |-> cls, text |-> s,
     rendered_widths |-> r.rendered_widths, cells |-> r.cells]

\* the text setter
set_text(line, value) == NewLine(line.cls, value)

\* char_to_cell: sum(self._rendered_widths[:idx])
char_to_cell(line, idx) == SumSeq(PyPrefix(line.rendered_widths, idx))

\* cell_to_char with the comparison w_sum + w >= x: a column at the start of
\* a character gives the character before it
RECURSIVE cell_to_char_loop_ge(_, _, _, _)
cell_to_char_loop_ge(line, x, idx, w_sum) ==
    IF idx >= Len(line.rendered_widths) THEN Len(line.text)
    ELSE LET w == line.rendered_widths[idx + 1] IN
         IF w_sum + w >= x THEN idx
         ELSE cell_to_char_loop_ge(line, x, idx + 1, w_sum + w)

\* the for loop of cell_to_char, at index idx with w_sum accumulated
RECURSIVE cell_to_char_loop(_, _, _, _)
cell_to_char_loop(line, x, idx, w_sum) ==
    IF idx >= Len(line.rendered_widths) THEN Len(line.text)
    ELSE LET w == line.rendered_widths[idx + 1] IN
         IF w_sum + w > x THEN idx
         ELSE cell_to_char_loop(line, x, idx + 1, w_sum + w)

\* cell_to_char snapping right: a column inside a character's cells, past
\* the first of them, gives the following character
cell_to_char_snap_right(line, x) ==
    LET idx == cell_to_char_loop(line, x, 0, 0) IN
    IF idx < Len(line.text) /\ SumSeq(PyPrefix(line.rendered_widths, idx)) < x
    THEN idx + 1
    ELSE idx

\* cell_to_char: a display column to an index into the text
cell_to_char(line, x) == cell_to_char_loop(line, x, 0, 0)

\* insert_character_at splicing the character in one place too far
insert_character_at_after(line, idx, ch) ==
    NewLine(line.cls,
        (PyPrefix(line.text, idx + 1) \o <<ch>>) \o PySuffix(line.text, idx + 1))

\* insert_character_at: splice the character in, render again
insert_character_at(line, idx, ch) ==
    NewLine(line.cls, (PyPrefix(line.text, idx) \o <<ch>>) \o PySuffix(line.text, idx))


(***************************************************************************)
(* TextDocument (document.py; the class of the same name in __init__.py    *)
(* has the same methods over TextRow).  A document object is a record      *)
(*   [cls, lines, cursor, max_col]                                         *)
(* where cls is the class of its lines.  A method that mutates the         *)
(* document is an operator from the document to the document afterwards,   *)
(* or to IndexError when the method raises (which all of them do, if at    *)
(* all, before their first assignment).                                    *)
(***************************************************************************)
CellLocation(row, col) == [row |-> row, col |-> col]
DocumentLocation(line, char) == [line |-> line, char |-> char]

\* the outcome of a method that raised IndexError
IndexError == [exc |-> "IndexError"]
Raised(v) == "exc" \in DOMAIN v

\* TextDocument.__init__ (the line class is TextLine in document.py and
\* TextRow in __init__.py)
NewDocument(cls) ==
    [cls |-> cls, lines |-> << >>, cursor |-> DocumentLocation(0, 0), max_col |-> 0]

max_row(d) == Len(d.lines)

\* move_cursor without the clamp of the index to the length of the line
move_cursor_no_index_clamp(d, doc_location) ==
    LET row == Max(0, Min(doc_location.line, max_row(d)))
        index == IF row = max_row(d) THEN 0 ELSE Max(0, doc_location.char)
    IN  [d EXCEPT !.cursor = DocumentLocation(row, index)]

\* move_cursor: clamp the row, then the index, and set the cursor
move_cursor(d, doc_location) ==
    LET row == Max(0, Min(doc_location.line, max_row(d)))
        index == IF row = max_row(d) THEN 0
                 ELSE Max(0, Min(doc_location.char, Len(d.lines[row + 1].text)))
    IN  [d EXCEPT !.cursor = DocumentLocation(row, index)]

\* cursor_cell: a CellLocation, or IndexError
cursor_cell(d) ==
    IF d.cursor.line = max_row(d) THEN CellLocation(d.cursor.line, 0)
    ELSE IF ~PyIndexOk(d.lines, d.cursor.line) THEN IndexError
    ELSE CellLocation(d.cursor.line,
            char_to_cell(PyGet(d.lines, d.cursor.line), d.cursor.char))

move_home(d) == move_cursor(d, DocumentLocation(d.cursor.line, 0))

move_end(d) ==
    LET cr == d.cursor.line IN
    IF cr = max_row(d) THEN d
    ELSE IF ~PyIndexOk(d.lines, cr) THEN IndexError
    ELSE move_cursor(d, DocumentLocation(cr, Len(PyGet(d.lines, cr).text)))

move_forward(d) ==
    LET cr == d.cursor.line
        ci == d.cursor.char + 1
    IN  IF cr = max_row(d) THEN d
        ELSE IF ~PyIndexOk(d.lines, cr) THEN IndexError
        ELSE IF ci > Len(PyGet(d.lines, cr).text)
             THEN move_cursor(d, DocumentLocation(cr + 1, 0))
             ELSE move_cursor(d, DocumentLocation(cr, ci))

\* move_backward that, crossing a line boundary, goes to the start of the
\* previous line
move_backward_line_start(d) ==
    LET cr == d.cursor.line
        ci == d.cursor.char
    IN  IF (cr = 0 /\ ci = 0) \/ cr - 1 >= Len(d.lines) THEN d
        ELSE IF ~PyIndexOk(d.lines, cr - 1) THEN IndexError
        ELSE IF ci - 1 < 0 /\ cr > 0
             THEN move_cursor(d, DocumentLocation(cr - 1, 0))
             ELSE move_cursor(d, DocumentLocation(cr, ci - 1))

move_backward(d) ==
    LET cr == d.cursor.line
        ci == d.cursor.char
    IN  IF (cr = 0 /\ ci = 0) \/ cr - 1 >= Len(d.lines) THEN d
        ELSE IF ~PyIndexOk(d.lines, cr - 1) THEN IndexError
        ELSE LET row == PyGet(d.lines, cr - 1) IN
             IF ci - 1 < 0 /\ cr > 0
             THEN move_cursor(d, DocumentLocation(cr - 1, Len(row.text)))
             ELSE move_cursor(d, DocumentLocation(cr, ci - 1))

\* append_line: render the new line, widen max_col, append
append_line(d, s) ==
    LET row == NewLine(d.cls, s) IN
    [d EXCEPT !.max_col = Max(d.max_col, Len(row.cells)),
              !.lines = Append(d.lines, row)]

clear(d) == [d EXCEPT !.lines = << >>]

\* lines[i:j] = new (0 <= i <= j)
SpliceLines(lines, i, j, new) ==
    (SubSeq(lines, 1, Min(i, Len(lines))) \o new)
        \o SubSeq(lines, Min(j, Len(lines)) + 1, Len(lines))

\* delete_character that, joining two lines, replaces the first of them
\* only and keeps the second
delete_character_keeps_next(d) ==
    LET l == d.cursor.line
        c == d.cursor.char
    IN  IF l = Len(d.lines) THEN d
        ELSE IF ~PyIndexOk(d.lines, l) THEN IndexError
        ELSE LET line == PyGet(d.lines, l) IN
             IF c = Len(line.text)
             THEN IF l + 1 < Len(d.lines)
                  THEN LET new_line == NewLine(d.cls,
                               line.text \o PyGet(d.lines, l + 1).text)
                       IN  [d EXCEPT !.lines =
                               SpliceLines(d.lines, l, l + 1, <<new_line>>)]
                  ELSE d
             ELSE LET new_line == NewLine(d.cls,
                          PyPrefix(line.text, c) \o PySuffix(line.text, c + 1))
                  IN  [d EXCEPT !.lines[l + 1] = new_line]

delete_character(d) ==
    LET l == d.cursor.line
        c == d.cursor.char
    IN  IF l = Len(d.lines) THEN d
        ELSE IF ~PyIndexOk(d.lines, l) THEN IndexError
        ELSE LET line == PyGet(d.lines, l) IN
             IF c = Len(line.text)
             THEN IF l + 1 < Len(d.lines)
                  THEN \* join lines
                       LET new_line == NewLine(d.cls,
                               line.text \o PyGet(d.lines, l + 1).text)
                       IN  [d EXCEPT !.lines =
                               SpliceLines(d.lines, l, l + 2, <<new_line>>)]
                  ELSE d
             ELSE LET new_line == NewLine(d.cls,
                          PyPrefix(line.text, c) \o PySuffix(line.text, c + 1))
                  IN  [d EXCEPT !.lines[l + 1] = new_line]

\* insert_newline that keeps the whole text in the second line
insert_newline_keeps_tail(d) ==
    LET l == d.cursor.line
        c == d.cursor.char
    IN  IF l = Len(d.lines) THEN append_line(d, << >>)
        ELSE IF ~PyIndexOk(d.lines, l) THEN IndexError
        ELSE LET line == PyGet(d.lines, l)
                 new_lines == << NewLine(d.cls, PyPrefix(line.text, c)),
                                 NewLine(d.cls, line.text) >>
             IN  [d EXCEPT !.lines = SpliceLines(d.lines, l, l + 1, new_lines)]

insert_newline(d) ==
    LET l == d.cursor.line
        c == d.cursor.char
    IN  IF l = Len(d.lines) THEN append_line(d, << >>)
        ELSE IF ~PyIndexOk(d.lines, l) THEN IndexError
        ELSE \* split the current line at the cursor
             LET line == PyGet(d.lines, l)
                 new_lines == << NewLine(d.cls, PyPrefix(line.text, c)),
                                 NewLine(d.cls, PySuffix(line.text, c)) >>
             IN  [d EXCEPT !.lines = SpliceLines(d.lines, l, l + 1, new_lines)]

\* insert_character that leaves the cursor after the character inserted
insert_character_advancing(d, ch) ==
    IF ch \in {CR, NL} THEN insert_newline(d)
    ELSE IF d.cursor.line = Len(d.lines) THEN append_line(d, <<ch>>)
    ELSE IF ~PyIndexOk(d.lines, d.cursor.line) THEN IndexError
    ELSE LET line == insert_character_at(
                         PyGet(d.lines, d.cursor.line), d.cursor.char, ch)
         IN  [d EXCEPT !.lines[d.cursor.line + 1] = line,
                       !.max_col = Max(d.max_col, Len(line.cells)),
                       !.cursor = DocumentLocation(d.cursor.line, d.cursor.char + 1)]

insert_character(d, ch) ==
    IF ch \in {CR, NL} THEN insert_newline(d)
    ELSE IF d.cursor.line = Len(d.lines) THEN append_line(d, <<ch>>)
    ELSE IF ~PyIndexOk(d.lines, d.cursor.line) THEN IndexError
    ELSE LET line == insert_character_at(
                         PyGet(d.lines, d.cursor.line), d.cursor.char, ch)
         IN  [d EXCEPT !.lines[d.cursor.line + 1] = line,
                       !.max_col = Max(d.max_col, Len(line.cells))]

\* line.rstrip('\n\r')
RECURSIVE rstrip(_)
rstrip(s) ==
    IF s # << >> /\ s[Len(s)] \in {NL, CR}
    THEN rstrip(SubSeq(s, 1, Len(s) - 1))
    ELSE s

\* the for loop of read_from_file over the lines the file still yields
RECURSIVE read_lines(_, _)
read_lines(d, file_object) ==
    IF file_object = << >> THEN d
    ELSE read_lines(append_line(d, rstrip(Head(file_object))), Tail(file_object))

\* read_from_file: clear, then append every line of the file
read_from_file(d, file_object) == read_lines(clear(d), file_object)

\* read_from_file on a file object that yields k lines and then raises (a
\* read or decoding error): the document the exception leaves behind
read_from_file_failing(d, file_object, k) ==
    read_lines(clear(d), SubSeq(file_object, 1, k))

\* write_to_file putting the newline between the lines, none after the last
RECURSIVE write_lines_separated(_)
write_lines_separated(lines) ==
    IF lines = << >> THEN << >>
    ELSE IF Len(lines) = 1 THEN <<Head(lines).text>>
    ELSE <<Head(lines).text, <<NL>> >> \o write_lines_separated(Tail(lines))

\* write_to_file: what the file object has been written, as a sequence of
\* write() arguments
RECURSIVE write_lines(_)
write_lines(lines) ==
    IF lines = << >> THEN << >>
    ELSE <<Head(lines).text, <<NL>> >> \o write_lines(Tail(lines))

write_to_file(d) == write_lines(d.lines)

\* the characters a file holds after the given write() calls
RECURSIVE FileContents(_)
FileContents(writes) ==
    IF writes = << >> THEN << >> ELSE Head(writes) \o FileContents(Tail(writes))

\* the lines a file object yields when iterated: each up to and including
\* its newline, the last one up to the end of the file
RECURSIVE FileLines(_, _)
FileLines(contents, current) ==
    IF contents = << >> THEN (IF current = << >> THEN << >> ELSE <<current>>)
    ELSE IF Head(contents) = NL
         THEN <<Append(current, NL)>> \o FileLines(Tail(contents), << >>)
         ELSE FileLines(Tail(contents), Append(current, Head(contents)))

\* cell_to_cursor: the DocumentLocation nearest to a CellLocation
cell_to_cursor(d, cell_location) ==
    LET y == cell_location.row
        x == cell_location.col
    IN  IF y < 0 THEN DocumentLocation(0, 0)
        ELSE IF y >= max_row(d) THEN DocumentLocation(max_row(d), 0)
        ELSE IF x < 0 THEN DocumentLocation(y, 0)
        ELSE DocumentLocation(y, cell_to_char(d.lines[y + 1], x))


(***************************************************************************)
(* State.                                                                  *)
(***************************************************************************)
VARIABLES
    doc,    \* the TextDocument object
    err,    \* TRUE once a method of the document has raised
    last,   \* the name of the method called last
    line,   \* a TextLine / TextRow object on its own (SpecLine)
    pre,    \* the document before the first of two calls (SpecPair)
    prev,   \* the name of the first of the two calls (SpecPair)
    step,   \* how many of the two calls were made (SpecPair)
    ed,     \* the Editor object, its document apart
    app,    \* the Application of app.py: its threads, queue and futures
    trace   \* the test timers registered and fired so far (SpecSched)

vars == <<doc, err, last, line, pre, prev, step, ed, app, trace>>

(***************************************************************************)
(* Inputs.                                                                 *)
(***************************************************************************)
\* the texts of at most n characters over a set of characters
Texts(chars, n) == UNION { [1..m -> chars] : m \in 0..n }

\* the sequences of at most n elements of a set
SeqsUpTo(S, n) == UNION { [1..m -> S] : m \in 0..n }

\* characters typed into and loaded by the documents of Spec
EditChars == {"a", TAB}
\* characters of every display width, for the rendering of one line
LineChars == {"a", " ", TAB, WIDE, COMBINING, CONTROL}

\* a file as its iterator yields it: every line ends with a newline, the
\* last one possibly without
TerminatedFile(ts) == [i \in 1..Len(ts) |-> ts[i] \o <<NL>>]
Files(chars, maxlines, maxchars) ==
    LET tss == { ts \in SeqsUpTo(Texts(chars, maxchars), maxlines) :
                   SumSeq([i \in 1..Len(ts) |-> Len(ts[i])]) <= maxchars }
    IN
    { TerminatedFile(ts) : ts \in tss }
        \cup { [TerminatedFile(ts) EXCEPT ![Len(ts)] = ts[Len(ts)]] :
                 ts \in { t \in tss : t # << >> /\ t[Len(t)] # << >> } }

EditFiles == Files(EditChars, MaxLines, MaxChars)

\* the locations move_cursor is called with: in range, negative, over-range
Locations ==
    { DocumentLocation(l, c) : l \in -1..(MaxLines + 1), c \in -1..(MaxChars + 1) }
\* the cells cell_to_cursor is called with
CellLocations ==
    { CellLocation(r, c) : r \in -1..(MaxLines + 1), c \in {-1, 0, 1, 2, 7, 8, 9, 17} }

(***************************************************************************)
(* The methods of TextDocument as steps.                                   *)
(***************************************************************************)
\* a call of a mutating method: its outcome r is the document afterwards,
\* or IndexError, which leaves the document as it was
Call(name, r) ==
    /\ ~err
    /\ last' = name
    /\ err' = Raised(r)
    /\ doc' = IF Raised(r) THEN doc ELSE r
    /\ UNCHANGED <<line, pre, prev, step, ed, app, trace>>

\* a call of a query, which leaves the document alone: raised tells
\* whether it raised
Query(name, raised) ==
    /\ ~err
    /\ last' = name
    /\ err' = raised
    /\ UNCHANGED <<doc, line, pre, prev, step, ed, app, trace>>

MoveCursorIn(locs) == \E loc \in locs : Call("move_cursor", move_cursor(doc, loc))
MoveCursor == MoveCursorIn(Locations)
MoveForward == Call("move_forward", move_forward(doc))
MoveBackward == Call("move_backward", move_backward(doc))
MoveHome == Call("move_home", move_home(doc))
MoveEnd == Call("move_end", move_end(doc))

\* the bounds of the model: at most MaxLines lines holding at most MaxChars
\* characters in all
Fits(d) ==
    /\ Len(d.lines) <= MaxLines
    /\ SumSeq([i \in 1..Len(d.lines) |-> Len(d.lines[i].text)]) <= MaxChars

\* a call of an editing method, taken while its outcome is within the bounds
Edit(name, r) ==
    /\ IF Raised(r) THEN TRUE ELSE Fits(r)
    /\ Call(name, r)

InsertCharacter ==
    \E ch \in EditChars \cup {NL} :
        Edit("insert_character", insert_character(doc, ch))
InsertNewline == Edit("insert_newline", insert_newline(doc))
DeleteCharacter == Edit("delete_character", delete_character(doc))

CursorCell == Query("cursor_cell", Raised(cursor_cell(doc)))
CellToCursor ==
    \E cell \in CellLocations : Query("cell_to_cursor", Raised(cell_to_cursor(doc, cell)))
\* write_to_file writes write_to_file(doc) to the file object; nothing in
\* it raises
WriteToFile == Query("write_to_file", FALSE)

ReadFromFile ==
    \E f \in EditFiles : Call("read_from_file", read_from_file(doc, f))

Null == [none |-> TRUE]

(***************************************************************************)
(* Spec: a fresh or freshly loaded TextDocument under every method but     *)
(* read_from_file.                                                         *)
(***************************************************************************)
InitOther ==
    /\ line = Null
    /\ pre = Null
    /\ prev = "none"
    /\ step = 0
    /\ ed = Null
    /\ app = Null
    /\ trace = Null

Init ==
    /\ \E f \in EditFiles : doc = read_from_file(NewDocument("TextLine"), f)
    /\ err = FALSE
    /\ last = "init"
    /\ InitOther

DocNext ==
    \/ MoveCursor
    \/ MoveForward
    \/ MoveBackward
    \/ MoveHome
    \/ MoveEnd
    \/ InsertCharacter
    \/ InsertNewline
    \/ DeleteCharacter
    \/ CursorCell
    \/ CellToCursor
    \/ WriteToFile

Next == DocNext

Spec == Init /\ [][Next]_vars

(***************************************************************************)
(* SpecLoad: the same, and read_from_file at any time.                     *)
(***************************************************************************)
NextLoad == DocNext \/ ReadFromFile

SpecLoad == Init /\ [][NextLoad]_vars

(***************************************************************************)
(* Properties of the document.                                             *)
(***************************************************************************)
\* the cursor invariant of a document
CursorValid(d) ==
    /\ 0 <= d.cursor.line
    /\ d.cursor.line <= Len(d.lines)
    /\ IF d.cursor.line = Len(d.lines) THEN d.cursor.char = 0
       ELSE /\ 0 <= d.cursor.char
            /\ d.cursor.char <= Len(d.lines[d.cursor.line + 1].text)

\* the texts of a sequence of lines
TextsOf(lines) == [i \in 1..Len(lines) |-> lines[i].text]

\* C1: in every state a fresh or freshly loaded document reaches by
\* move_cursor (any location), move_forward, move_backward, move_home,
\* move_end, insert_character, insert_newline and delete_character, the
\* cursor is on a line or on the virtual line after the last, and its
\* character index is within that line (0 on the virtual line).
C1_CursorInvariant == CursorValid(doc)


\* the texts a file's lines are loaded as
Loaded(f) == [i \in 1..Len(f) |-> rstrip(f[i])]

\* C2: read_from_file on a document in any reachable state replaces the
\* lines by exactly the loaded lines, in order, and leaves the cursor
\* invariant holding.
C2_LoadKeepsCursorInvariant ==
    [][\A f \in EditFiles :
          Call("read_from_file", read_from_file(doc, f))
            => /\ TextsOf(doc'.lines) = Loaded(f)
               /\ CursorValid(doc')]_vars

\* C3: no operation of TextDocument raises, in any reachable state and for
\* any argument, read_from_file included among the operations.
C3_NeverRaises == ~err

(***************************************************************************)
(* SpecLoadFail: SpecLoad, and loads that fail part-way through the file.  *)
(***************************************************************************)
\* read_from_file from a file whose reading raises after k lines; the
\* error is the file's, and goes to the caller
ReadFromFileFails ==
    \E f \in EditFiles : \E k \in 0..Len(f) :
        /\ ~err
        /\ last' = "read_from_file (failed)"
        /\ doc' = read_from_file_failing(doc, f, k)
        /\ UNCHANGED <<err, line, pre, prev, step, ed, app, trace>>

NextLoadFail == NextLoad \/ ReadFromFileFails

SpecLoadFail == Init /\ [][NextLoadFail]_vars

\* C15: a load that fails after the file yielded k >= 0 lines leaves the
\* lines and the cursor of the document exactly as they were before the
\* load started.
C15_FailedLoadKeepsDocument ==
    [][last' = "read_from_file (failed)"
          => /\ TextsOf(doc'.lines) = TextsOf(doc.lines)
             /\ doc'.cursor = doc.cursor]_vars

(***************************************************************************)
(* SpecLine: one TextLine or TextRow, built from the empty text by its     *)
(* mutations.                                                              *)
(***************************************************************************)
LineInit ==
    /\ \E cls \in {"TextLine", "TextRow"} : line = NewLine(cls, << >>)
    /\ doc = NewDocument("TextLine")
    /\ err = FALSE
    /\ last = "init"
    /\ pre = Null
    /\ prev = "none"
    /\ step = 0
    /\ ed = Null
    /\ app = Null
    /\ trace = Null

\* the text setter, given a short text
LineSetText ==
    \E value \in Texts(LineChars, 1) :
        /\ line' = set_text(line, value)
        /\ last' = "text"
        /\ UNCHANGED <<doc, err, pre, prev, step, ed, app, trace>>

LineInsertCharacterAt ==
    \E idx \in 0..Len(line.text), ch \in LineChars :
        /\ Len(line.text) < MaxText
        /\ line' = insert_character_at(line, idx, ch)
        /\ last' = "insert_character_at"
        /\ UNCHANGED <<doc, err, pre, prev, step, ed, app, trace>>

LineNext == LineSetText \/ LineInsertCharacterAt

SpecLine == LineInit /\ [][LineNext]_vars

\* C9: in a rendered line with one width entry per character, every tab
\* occupies 8 - (x mod 8) cells, x being the display column the tab starts
\* at: the sum of the widths of the characters before it, tabs included.
C9_TabExpansion ==
    Len(line.rendered_widths) = Len(line.text) =>
        \A i \in 1..Len(line.text) :
            line.text[i] = TAB =>
                line.rendered_widths[i] =
                    TAB_SIZE - (SumSeq(SubSeq(line.rendered_widths, 1, i - 1)) % TAB_SIZE)

\* C10: after construction and after every mutation a line has as many
\* column-width entries as its text has characters.
C10_WidthPerCharacter == Len(line.rendered_widths) = Len(line.text)

\* C11: after construction and after every mutation a line has as many
\* cells as the sum of its column-width entries: a double-width character
\* gives one content cell, one continuation cell and one entry of 2, a tab
\* as many cells as its entry.
C11_CellsMatchWidths == Len(line.cells) = SumSeq(line.rendered_widths)

\* every character of the text takes at least one cell
AllVisible(text) ==
    \A i \in 1..Len(text) : text[i] = TAB \/ wcwidth(text[i]) >= 1

\* C12: on a line of characters of width >= 1, cell_to_char(col) for a
\* column below the rendered width is the index i of the character whose
\* cells cover col, char_to_cell(i) <= col < char_to_cell(i + 1), so the
\* second column of a double-width character and the inside of a tab give
\* that character and never the following one; for a column at or beyond
\* the rendered width it is the character count.
C12_CellToChar ==
    AllVisible(line.text) =>
        \A col \in 0..(Len(line.cells) + 2) :
            LET i == cell_to_char(line, col) IN
            IF col < Len(line.cells)
            THEN /\ 0 <= i /\ i < Len(line.text)
                 /\ char_to_cell(line, i) <= col
                 /\ col < char_to_cell(line, i + 1)
            ELSE i = Len(line.text)

\* a double-width character then a tab: the second column of the first
\* gives index 0, a column inside the tab index 1, the width index 2
C12_Witness ==
    /\ last = "insert_character_at"
    /\ line.text = <<WIDE, TAB>>
    /\ cell_to_char(line, 1) = 0
    /\ cell_to_char(line, 5) = 1
    /\ cell_to_char(line, 8) = 2

\* a line holding a double-width character and a tab that does not start
\* at a tab stop, after a mutation
C11_Witness ==
    /\ last = "insert_character_at"
    /\ line.text = <<WIDE, TAB>>
    /\ line.rendered_widths = <<2, 6>>
    /\ Len(line.cells) = 8
    /\ line.cells[2] = WCHAR_RIGHT

(***************************************************************************)
(* SpecView: a document loaded from a file of lines of characters of       *)
(* every width, under the cursor motions and the coordinate queries.       *)
(***************************************************************************)
ViewFiles ==
    { <<t \o <<NL>> >> : t \in Texts(LineChars, MaxText) }
        \cup { <<t \o <<NL>>, <<"a", NL>> >> : t \in Texts(LineChars, MaxText) }

ViewLocations ==
    { DocumentLocation(l, c) : l \in -1..3, c \in -1..(MaxText + 1) }

ViewInit ==
    /\ \E f \in ViewFiles : doc = read_from_file(NewDocument("TextLine"), f)
    /\ err = FALSE
    /\ last = "init"
    /\ InitOther

ViewNext ==
    \/ MoveCursorIn(ViewLocations)
    \/ MoveForward
    \/ MoveBackward
    \/ MoveHome
    \/ MoveEnd
    \/ CursorCell
    \/ CellToCursor

SpecView == ViewInit /\ [][ViewNext]_vars

\* cell_to_cursor(cursor_cell) gives the cursor back
RoundTrip(d) == cell_to_cursor(d, cursor_cell(d)) = d.cursor

\* C5 as stated: for every document of characters of display width 0, 1, 2
\* and tabs and every valid location L, with the cursor at L,
\* cell_to_cursor(cursor_cell) is exactly L.
C5_RoundTrip_Original == RoundTrip(doc)

\* C5 (amended): with the cursor at a valid location L that is the virtual
\* end of document or lies on a line all of whose characters have display
\* width at least 1 (single-width, double-width, tabs),
\* cell_to_cursor(cursor_cell) is exactly L.
C5_RoundTrip ==
    (doc.cursor.line = Len(doc.lines)
        \/ AllVisible(doc.lines[doc.cursor.line + 1].text))
      => RoundTrip(doc)

\* the cursor was put behind a double-width character and a tab, and the
\* round trip gives it back
C5_Witness ==
    /\ last = "move_cursor"
    /\ doc.cursor.line < Len(doc.lines)
    /\ doc.cursor.char = 3
    /\ SubSeq(doc.lines[doc.cursor.line + 1].text, 1, 3) = <<WIDE, "a", TAB>>
    /\ cursor_cell(doc) = CellLocation(doc.cursor.line, 8)
    /\ RoundTrip(doc)

(***************************************************************************)
(* SpecPair: two calls in a row on a document in any state: a first call   *)
(* that inserts or advances, then a second that deletes or goes back.      *)
(***************************************************************************)
PairInit ==
    /\ \E f \in EditFiles, loc \in Locations :
          doc = move_cursor(read_from_file(NewDocument("TextLine"), f), loc)
    /\ pre = doc
    /\ step = 0
    /\ err = FALSE
    /\ last = "init"
    /\ prev = "none"
    /\ line = Null
    /\ ed = Null
    /\ app = Null
    /\ trace = Null

PairCall(name, r) ==
    /\ ~err
    /\ last' = name
    /\ err' = Raised(r)
    /\ doc' = IF Raised(r) THEN doc ELSE r
    /\ step' = step + 1
    /\ prev' = last
    /\ UNCHANGED <<line, pre, ed, app, trace>>

PairFirst ==
    /\ step = 0
    /\ \/ \E ch \in EditChars : PairCall("insert_character", insert_character(doc, ch))
       \/ PairCall("insert_newline", insert_newline(doc))
       \/ PairCall("move_forward", move_forward(doc))

PairSecond ==
    /\ step = 1
    /\ \/ PairCall("delete_character", delete_character(doc))
       \/ PairCall("move_backward", move_backward(doc))

PairNext == PairFirst \/ PairSecond

SpecPair == PairInit /\ [][PairNext]_vars

\* C7 as stated: at every valid cursor location L, insert_character(x) for
\* a non-terminator x followed at once by delete_character() leaves the
\* line texts and the cursor as they were before the insert.
C7_InsertDelete_Original ==
    [][(last = "insert_character" /\ last' = "delete_character")
          => /\ TextsOf(doc'.lines) = TextsOf(pre.lines)
             /\ doc'.cursor = pre.cursor]_vars

\* C7 (amended): at every valid cursor location L on a line (not the
\* virtual end of document), insert_character(x) for a non-terminator x
\* followed at once by delete_character() leaves the line texts and the
\* cursor as they were before the insert; at the virtual end of document
\* the pair leaves one empty line appended and the cursor where it was.
C7_InsertDelete ==
    [][(last = "insert_character" /\ last' = "delete_character")
          => /\ doc'.cursor = pre.cursor
             /\ TextsOf(doc'.lines) =
                  IF pre.cursor.line < Len(pre.lines)
                  THEN TextsOf(pre.lines)
                  ELSE Append(TextsOf(pre.lines), << >>)]_vars

\* a character was inserted inside a line and deleted again
C7_Witness ==
    /\ step = 2
    /\ prev = "insert_character"
    /\ last = "delete_character"
    /\ pre.cursor.line < Len(pre.lines)
    /\ pre.cursor.char = 1
    /\ Len(pre.lines[pre.cursor.line + 1].text) = 2
    /\ doc.lines = pre.lines

\* C8: with the cursor at char k of a line of text t, insert_newline()
\* replaces that line by the two lines t[:k] and t[k:], the other lines
\* staying as they are and in order; delete_character() right after it
\* (the cursor is then at the end of the first of the two) makes t one line
\* again and the document what it was.
C8_SplitJoin ==
    [][/\ (step = 0 /\ last' = "insert_newline" /\ doc.cursor.line < Len(doc.lines))
            => LET l == doc.cursor.line
                   k == doc.cursor.char
                   t == doc.lines[l + 1].text
               IN  /\ TextsOf(doc'.lines) =
                        (SubSeq(TextsOf(doc.lines), 1, l)
                            \o <<SubSeq(t, 1, k), SubSeq(t, k + 1, Len(t))>>)
                            \o SubSeq(TextsOf(doc.lines), l + 2, Len(doc.lines))
                   /\ doc'.cursor = DocumentLocation(l, Len(doc'.lines[l + 1].text))
       /\ (last = "insert_newline" /\ last' = "delete_character"
              /\ pre.cursor.line < Len(pre.lines))
            => doc' = pre]_vars

\* a line of two characters was split in the middle and joined again
C8_Witness ==
    /\ step = 2
    /\ prev = "insert_newline"
    /\ last = "delete_character"
    /\ pre.cursor.line < Len(pre.lines)
    /\ pre.cursor.char = 1
    /\ Len(pre.lines[pre.cursor.line + 1].text) = 2
    /\ Len(pre.lines) = 2
    /\ doc = pre

\* C25: move_forward goes one character on, from the end of a line to
\* char 0 of the next line (the virtual line after the last included), and
\* nowhere from the virtual line; move_backward goes one character back,
\* from char 0 of a line or from the virtual line to the end of the line
\* before, and nowhere from (0, 0); neither raises nor touches the lines;
\* and from a cursor on a line move_forward then move_backward gives the
\* cursor back.
C25_CharwiseMotion ==
    [][/\ last' = "move_forward"
            => /\ ~err'
               /\ doc'.lines = doc.lines
               /\ doc'.cursor =
                    IF doc.cursor.line = Len(doc.lines) THEN doc.cursor
                    ELSE IF doc.cursor.char = Len(doc.lines[doc.cursor.line + 1].text)
                         THEN DocumentLocation(doc.cursor.line + 1, 0)
                         ELSE DocumentLocation(doc.cursor.line, doc.cursor.char + 1)
       /\ last' = "move_backward"
            => /\ ~err'
               /\ doc'.lines = doc.lines
               /\ doc'.cursor =
                    IF doc.cursor = DocumentLocation(0, 0) THEN doc.cursor
                    ELSE IF doc.cursor.char = 0
                         THEN DocumentLocation(doc.cursor.line - 1,
                                  Len(doc.lines[doc.cursor.line].text))
                         ELSE DocumentLocation(doc.cursor.line, doc.cursor.char - 1)
       /\ (last = "move_forward" /\ last' = "move_backward"
              /\ pre.cursor.line < Len(pre.lines))
            => doc'.cursor = pre.cursor]_vars

\* the cursor went from the end of the first of two lines to the start of
\* the second and back
C25_Witness ==
    /\ step = 2
    /\ prev = "move_forward"
    /\ last = "move_backward"
    /\ Len(pre.lines) = 2
    /\ pre.lines[1].text # << >>
    /\ pre.cursor = DocumentLocation(0, Len(pre.lines[1].text))
    /\ doc.cursor = pre.cursor

\* C27: delete_character leaves lines and cursor as they are exactly when
\* the cursor is on the virtual line or at the end of the last line;
\* otherwise it removes one unit at the cursor: the character at
\* cursor.char (as many lines, that line one character shorter) or the line
\* break after the cursor's line (one line fewer, the two lines made one
\* that holds the text of the first and then of the second), all other
\* lines staying as they are.
C27_DeleteCharacter ==
    [][last' = "delete_character" =>
          LET l == doc.cursor.line
              c == doc.cursor.char
              n == Len(doc.lines)
              old == TextsOf(doc.lines)
              new == TextsOf(doc'.lines)
          IN  /\ ~err'
              /\ IF l = n \/ (l = n - 1 /\ c = Len(old[l + 1]))
                 THEN doc'.lines = doc.lines /\ doc'.cursor = doc.cursor
                 ELSE IF c = Len(old[l + 1])
                 THEN /\ Len(new) = n - 1
                      /\ new[l + 1] = old[l + 1] \o old[l + 2]
                      /\ \A i \in 1..l : doc'.lines[i] = doc.lines[i]
                      /\ \A i \in (l + 2)..(n - 1) : doc'.lines[i] = doc.lines[i + 1]
                 ELSE /\ Len(new) = n
                      /\ new[l + 1] = SubSeq(old[l + 1], 1, c)
                                        \o SubSeq(old[l + 1], c + 2, Len(old[l + 1]))
                      /\ \A i \in 1..n : i # l + 1 => doc'.lines[i] = doc.lines[i]]_vars

\* the cursor went to the end of the first of two lines and the line break
\* there was deleted: one line with the text of both
C27_Witness ==
    /\ step = 2
    /\ prev = "move_forward"
    /\ last = "delete_character"
    /\ Len(pre.lines) = 2
    /\ pre.lines[2].text # << >>
    /\ doc.cursor = DocumentLocation(0, Len(pre.lines[1].text))
    /\ TextsOf(doc.lines) = << pre.lines[1].text \o pre.lines[2].text >>

\* C19: write_to_file writes, for each line in document order, the line's
\* text and then exactly one newline, and leaves lines and cursor alone;
\* a document loaded from the file written has the same line texts.
C19_StoreLoad ==
    [][last' = "write_to_file" =>
          LET w == write_to_file(doc)
              loaded == read_from_file(NewDocument(doc.cls),
                            FileLines(FileContents(w), << >>))
          IN  /\ Len(w) = 2 * Len(doc.lines)
              /\ \A i \in 1..Len(doc.lines) :
                    w[2 * i - 1] = doc.lines[i].text /\ w[2 * i] = <<NL>>
              /\ doc'.lines = doc.lines
              /\ doc'.cursor = doc.cursor
              /\ TextsOf(loaded.lines) = TextsOf(doc.lines)]_vars

\* a document ending in an empty line was written
C19_Witness ==
    /\ last = "write_to_file"
    /\ Len(doc.lines) = 2
    /\ doc.lines[1].text # << >>
    /\ doc.lines[2].text = << >>

\* the widest rendering among the lines, 0 without lines
RECURSIVE WidestLine(_)
WidestLine(lines) ==
    IF lines = << >> THEN 0
    ELSE Max(Len(Head(lines).cells), WidestLine(Tail(lines)))

\* C20: in every state reached by loads, insert_character, insert_newline
\* and delete_character (deletions that shorten the widest line and
\* deletions that join two lines included) max_col is the largest cell
\* count among the current lines.
C20_MaxColIsWidest == doc.max_col = WidestLine(doc.lines)

\* C26: cell_to_cursor gives a valid DocumentLocation for every
\* CellLocation (r, c): (line_count, 0) for r >= line_count; for r < 0 what
\* it gives for (0, c); char 0 of the row for c < 0; the end of the line
\* for c at or beyond the rendered width of the row.
C26_CellToCursorClamps ==
    \A cell \in CellLocations :
        LET loc == cell_to_cursor(doc, cell)
            n == Len(doc.lines)
        IN  /\ CursorValid([doc EXCEPT !.cursor = loc])
            /\ cell.row >= n => loc = DocumentLocation(n, 0)
            /\ cell.row < 0 => loc = cell_to_cursor(doc, CellLocation(0, cell.col))
            /\ (0 <= cell.row /\ cell.row < n /\ cell.col < 0)
                  => loc = DocumentLocation(cell.row, 0)
            /\ (/\ 0 <= cell.row
                /\ cell.row < n
                /\ cell.col >= Len(doc.lines[cell.row + 1].cells))
                  => loc = DocumentLocation(cell.row, Len(doc.lines[cell.row + 1].text))

\* C28: insert_character (of a character that ends no line, on the virtual
\* line included, where it appends a line), insert_newline and
\* delete_character leave the cursor exactly as it was; and
\* insert_character of a line terminator does to lines and cursor what
\* insert_newline does.
C28_EditsKeepCursor ==
    [][/\ last' \in {"insert_character", "insert_newline", "delete_character"}
            => ~err' /\ doc'.cursor = doc.cursor
       /\ last' = "insert_newline"
            => \A ch \in {NL, CR} : insert_character(doc, ch) = doc']_vars

\* a character was inserted on the virtual line after the first line: it
\* is a line of its own and the cursor is still at (1, 0), before it
C28_Witness ==
    /\ last = "insert_character"
    /\ Len(doc.lines) = 2
    /\ doc.lines[2].text = <<TAB>>
    /\ doc.cursor = DocumentLocation(1, 0)

\* the cursor is on a line of two characters after moves and edits
C1_Witness ==
    /\ last \in {"insert_character", "delete_character", "move_backward"}
    /\ Len(doc.lines) = 2
    /\ doc.cursor = DocumentLocation(1, Len(doc.lines[2].text))
    /\ CursorValid(doc)


(***************************************************************************)
(* Editor (__init__.py).  An editor object is a record                     *)
(*   [document, scroll, desired_x, update_desired_x, redraw_scheduled,     *)
(*    n_lines, n_cols]                                                     *)
(* whose document is a TextDocument over TextRow; n_lines and n_cols are   *)
(* the size of the screen the Application base class keeps.  A method is   *)
(* an operator from the editor to the editor afterwards, or to IndexError  *)
(* when a method of the document raised.                                   *)
(***************************************************************************)
\* the rows the frame and the status bar take from the screen, and the
\* columns the frame takes
RESERVED_ROWS == 3
RESERVED_COLS == 2

\* Editor.__init__ on a screen of the given size
NewEditor(n_lines, n_cols) ==
    [document |-> NewDocument("TextRow"),
     scroll |-> CellLocation(0, 0),
     desired_x |-> 0,
     update_desired_x |-> TRUE,
     redraw_scheduled |-> FALSE,
     n_lines |-> n_lines,
     n_cols |-> n_cols,
     now |-> 0,
     timers |-> << >>,
     exit_flag |-> FALSE]

\* F applied to the value v: the value is computed once and named in F
With(v, F(_)) == F(v)

\* the editor with its document replaced by the outcome of a document method
WithDocument(e, r) == IF Raised(r) THEN IndexError ELSE [e EXCEPT !.document = r]

\* Editor.open: read the file into the document
Editor_open(e, f) == WithDocument(e, read_from_file(e.document, f))

Editor_move_home(e) == WithDocument(e, move_home(e.document))
Editor_move_end(e) == WithDocument(e, move_end(e.document))
Editor_move_left(e) == WithDocument(e, move_backward(e.document))
Editor_move_right(e) == WithDocument(e, move_forward(e.document))

\* move_down that leaves the flag for the update of desired_x set
Editor_move_down_updates(e) ==
    LET cy == e.document.cursor.line
        cx == e.document.cursor.char
    IN  [e EXCEPT !.document = move_cursor(e.document, DocumentLocation(cy + 1, cx))]

Editor_move_down(e) ==
    LET cy == e.document.cursor.line
        cx == e.document.cursor.char
    IN  [e EXCEPT !.document = move_cursor(e.document, DocumentLocation(cy + 1, cx)),
                  !.update_desired_x = FALSE]

Editor_move_up(e) ==
    LET cy == e.document.cursor.line
        cx == e.document.cursor.char
    IN  [e EXCEPT !.document = move_cursor(e.document, DocumentLocation(cy - 1, cx)),
                  !.update_desired_x = FALSE]

\* n times move_down, n times move_up
RECURSIVE move_down_times(_, _)
move_down_times(e, n) ==
    IF n <= 0 THEN e ELSE move_down_times(Editor_move_down(e), n - 1)

RECURSIVE move_up_times(_, _)
move_up_times(e, n) ==
    IF n <= 0 THEN e ELSE move_up_times(Editor_move_up(e), n - 1)

Editor_move_page_down(e) ==
    With(move_down_times(e, Max(1, e.n_lines - RESERVED_ROWS)), LAMBDA e1 :
    With(cursor_cell(e1.document), LAMBDA cc :
        IF Raised(cc) THEN IndexError
        ELSE [e1 EXCEPT !.scroll = CellLocation(cc.row, e1.scroll.col)]))

Editor_move_page_up(e) ==
    With(move_up_times(e, Max(1, e.n_lines - RESERVED_ROWS)), LAMBDA e1 :
        [e1 EXCEPT !.scroll = CellLocation(max_row(e1.document), e1.scroll.col)])

Editor_insert_character(e, ch) ==
    With(insert_character(e.document, ch), LAMBDA r :
        IF Raised(r) THEN IndexError ELSE WithDocument(e, move_forward(r)))

Editor_insert_newline(e) ==
    With(insert_newline(e.document), LAMBDA r :
        IF Raised(r) THEN IndexError ELSE WithDocument(e, move_forward(r)))

Editor_backspace(e) ==
    With(move_backward(e.document), LAMBDA r :
        IF Raised(r) THEN IndexError ELSE WithDocument(e, delete_character(r)))

(***************************************************************************)
(* The scheduler the editor inherits from Application: the clock now, the *)
(* timers in firing order as records [deadline, callback], the exit flag.  *)
(***************************************************************************)
Timer(deadline, callback) == [deadline |-> deadline, callback |-> callback]

\* a callback: a method by its name, or the n-th callback of a test
Callback(name, n) == [name |-> name, n |-> n]

\* the place of a new timer: before the first timer with a later deadline
RECURSIVE timer_place(_, _, _)
timer_place(timers, deadline, i) ==
    IF i > Len(timers) \/ timers[i].deadline > deadline THEN i
    ELSE timer_place(timers, deadline, i + 1)

\* add_timer putting the timer at the head of the queue whatever its deadline
add_timer_at_head(e, delay, callback) ==
    [e EXCEPT !.timers = <<Timer(e.now + delay, callback)>> \o e.timers]

\* add_timer(delay, callback): insert (now + delay, callback), after the
\* timers of the same deadline
add_timer(e, delay, callback) ==
    LET t == Timer(e.now + delay, callback)
        i == timer_place(e.timers, t.deadline, 1)
    IN  [e EXCEPT !.timers =
            (SubSeq(e.timers, 1, i - 1) \o <<t>>) \o SubSeq(e.timers, i, Len(e.timers))]

\* quit(): set the exit flag
quit(e) == [e EXCEPT !.exit_flag = TRUE]

\* redraw scheduling a timer on every call
Editor_redraw_every_call(e) ==
    add_timer([e EXCEPT !.redraw_scheduled = TRUE], 0, Callback("_redraw", 0))

\* redraw setting the flag and scheduling no timer
Editor_redraw_no_timer(e) == [e EXCEPT !.redraw_scheduled = TRUE]

\* redraw: schedule the zero-delay redraw timer unless one is scheduled
Editor_redraw(e) ==
    IF ~e.redraw_scheduled
    THEN add_timer([e EXCEPT !.redraw_scheduled = TRUE], 0, Callback("_redraw", 0))
    ELSE e

\* the keys: curses key codes (integers) by name, characters as themselves
IntKeys ==
    {"KEY_ENTER", "KEY_BACKSPACE", "KEY_DOWN", "KEY_NPAGE", "KEY_UP",
     "KEY_PPAGE", "KEY_LEFT", "KEY_RIGHT", "KEY_HOME", "KEY_END", "KEY_F1"}
CTRL_H == "ctrl-h"
CTRL_Q == "ctrl-q"
\* curses.ascii.iscntrl of a character
iscntrl(ch) == ch \in {TAB, NL, CR, CONTROL, CTRL_H, CTRL_Q}

\* key_bindings.get(ch) and the call of the handler found, or the insertion
\* of a character that is no control character
dispatch(e, ch) ==
    CASE ch = CTRL_Q -> quit(e)
      [] ch \in {NL, "KEY_ENTER"} -> Editor_insert_newline(e)
      [] ch \in {CTRL_H, "KEY_BACKSPACE"} -> Editor_backspace(e)
      [] ch = "KEY_DOWN" -> Editor_move_down(e)
      [] ch = "KEY_NPAGE" -> Editor_move_page_down(e)
      [] ch = "KEY_UP" -> Editor_move_up(e)
      [] ch = "KEY_PPAGE" -> Editor_move_page_up(e)
      [] ch = "KEY_LEFT" -> Editor_move_left(e)
      [] ch = "KEY_RIGHT" -> Editor_move_right(e)
      [] ch = "KEY_HOME" -> Editor_move_home(e)
      [] ch = "KEY_END" -> Editor_move_end(e)
      [] OTHER -> IF ch \notin IntKeys /\ ~iscntrl(ch)
                  THEN Editor_insert_character(e, ch)
                  ELSE e

\* key_press: dispatch the key, then take the desired column from the
\* cursor or bring the cursor to the desired column, and ask for a redraw
key_press(e, ch) ==
    With(dispatch([e EXCEPT !.update_desired_x = TRUE], ch), LAMBDA e1 :
        IF Raised(e1) THEN IndexError
        ELSE With(cursor_cell(e1.document), LAMBDA cc :
            IF Raised(cc) THEN IndexError
            ELSE IF e1.update_desired_x
                 THEN Editor_redraw([e1 EXCEPT !.desired_x = cc.col])
                 ELSE Editor_redraw([e1 EXCEPT !.document =
                         move_cursor(e1.document,
                             cell_to_cursor(e1.document,
                                 CellLocation(cc.row, e1.desired_x)))])))

\* _update_scroll without the final clamp to the end of the document
update_scroll_unclamped(e, cc, win_rows, win_cols) ==
    LET sr0 == e.scroll.row
        sc0 == e.scroll.col
        sr == IF win_rows < 1 THEN 0
              ELSE IF cc.row < sr0 THEN cc.row
              ELSE IF cc.row >= sr0 + win_rows THEN Max(0, cc.row - win_rows + 1)
              ELSE sr0
        sc == IF win_cols < 1 THEN 0
              ELSE IF cc.col < sc0 THEN cc.col
              ELSE IF cc.col >= sc0 + win_cols THEN Max(0, cc.col - win_cols + 1)
              ELSE sc0
    IN  [e EXCEPT !.scroll = CellLocation(sr, sc)]

\* _update_scroll bringing the cursor cell to the first row and column of
\* the window whether or not it was visible
update_scroll_to_cursor(e, cc, win_rows, win_cols) ==
    LET sr1 == IF win_rows < 1 THEN 0 ELSE cc.row
        sr == Min(sr1, Max(0, max_row(e.document) - win_rows + 1))
        sc1 == IF win_cols < 1 THEN 0 ELSE cc.col
        sc == Min(sc1, Max(0, e.document.max_col - win_cols + 1))
    IN  [e EXCEPT !.scroll = CellLocation(sr, sc)]

\* _update_scroll scrolling forward one cell too late (> for >=)
update_scroll_late(e, cc, win_rows, win_cols) ==
    LET sr0 == e.scroll.row
        sc0 == e.scroll.col
        sr1 == IF win_rows < 1 THEN 0
               ELSE IF cc.row < sr0 THEN cc.row
               ELSE IF cc.row > sr0 + win_rows THEN Max(0, cc.row - win_rows + 1)
               ELSE sr0
        sr == Min(sr1, Max(0, max_row(e.document) - win_rows + 1))
        sc1 == IF win_cols < 1 THEN 0
               ELSE IF cc.col < sc0 THEN cc.col
               ELSE IF cc.col > sc0 + win_cols THEN Max(0, cc.col - win_cols + 1)
               ELSE sc0
        sc == Min(sc1, Max(0, e.document.max_col - win_cols + 1))
    IN  [e EXCEPT !.scroll = CellLocation(sr, sc)]

\* _update_scroll: the scroll position that shows the cursor cell in a
\* window of win_rows by win_cols
update_scroll(e, cc, win_rows, win_cols) ==
    LET sr0 == e.scroll.row
        sc0 == e.scroll.col
        sr1 == IF win_rows < 1 THEN 0
               ELSE IF cc.row < sr0 THEN cc.row
               ELSE IF cc.row >= sr0 + win_rows THEN Max(0, cc.row - win_rows + 1)
               ELSE sr0
        sr == Min(sr1, Max(0, max_row(e.document) - win_rows + 1))
        sc1 == IF win_cols < 1 THEN 0
               ELSE IF cc.col < sc0 THEN cc.col
               ELSE IF cc.col >= sc0 + win_cols THEN Max(0, cc.col - win_cols + 1)
               ELSE sc0
        sc == Min(sc1, Max(0, e.document.max_col - win_cols + 1))
    IN  [e EXCEPT !.scroll = CellLocation(sr, sc)]

\* _redraw: the timer callback; it clears the flag and updates the scroll
\* position for the text window inside the frame
Editor_redraw_now(e) ==
    With(cursor_cell(e.document), LAMBDA cc :
        IF Raised(cc) THEN IndexError
        ELSE update_scroll([e EXCEPT !.redraw_scheduled = FALSE], cc,
                e.n_lines - RESERVED_ROWS, e.n_cols - RESERVED_COLS))

\* the call of a timer's callback
invoke(e, callback) ==
    CASE callback.name = "_redraw" -> Editor_redraw_now(e)
      [] callback.name = "quit" -> quit(e)
      [] OTHER -> e

\* the run loop firing, when its wait times out, every timer that is due
RECURSIVE fire_timer_all_due(_, _)
fire_timer_all_due(e, t) ==
    IF e.timers = << >> \/ Head(e.timers).deadline > t THEN [e EXCEPT !.now = t]
    ELSE With(invoke([e EXCEPT !.now = t, !.timers = Tail(e.timers)],
                     Head(e.timers).callback), LAMBDA e1 :
             IF Raised(e1) THEN e1 ELSE fire_timer_all_due(e1, t))

\* the run loop when its wait times out at clock value t: the earliest
\* timer is popped and invoked
fire_timer(e, t) ==
    invoke([e EXCEPT !.now = t, !.timers = Tail(e.timers)], Head(e.timers).callback)

\* resize: the screen has a new size and the editor asks for a redraw
Editor_resize(e, n_lines, n_cols) ==
    Editor_redraw([e EXCEPT !.n_lines = n_lines, !.n_cols = n_cols])

(***************************************************************************)
(* The editor as steps: the state is the editor object, its document in    *)
(* doc and the rest in ed.                                                 *)
(***************************************************************************)
Editor == [document |-> doc,
           scroll |-> ed.scroll,
           desired_x |-> ed.desired_x,
           update_desired_x |-> ed.update_desired_x,
           redraw_scheduled |-> ed.redraw_scheduled,
           n_lines |-> ed.n_lines,
           n_cols |-> ed.n_cols,
           now |-> ed.now,
           timers |-> ed.timers,
           exit_flag |-> ed.exit_flag]

EditorFields(e) ==
    [scroll |-> e.scroll,
     desired_x |-> e.desired_x,
     update_desired_x |-> e.update_desired_x,
     redraw_scheduled |-> e.redraw_scheduled,
     n_lines |-> e.n_lines,
     n_cols |-> e.n_cols,
     now |-> e.now,
     timers |-> e.timers,
     exit_flag |-> e.exit_flag]

\* a call of a method of the editor with outcome r
EditorStep(name, r) ==
    /\ ~err
    /\ last' = name
    /\ err' = Raised(r)
    /\ doc' = IF Raised(r) THEN doc ELSE r.document
    /\ ed' = IF Raised(r) THEN ed ELSE EditorFields(r)
    /\ UNCHANGED <<line, pre, prev, step, app>>

EditorCall(name, r) == EditorStep(name, r) /\ UNCHANGED trace

\* the screen sizes: a text window of 0, 1 or 2 rows and columns
ScreenLines == {3, 4, 5}
ScreenCols == {2, 3, 4}

VerticalKeys == {"KEY_UP", "KEY_DOWN", "KEY_NPAGE", "KEY_PPAGE"}
MotionKeys == VerticalKeys \cup {"KEY_LEFT", "KEY_RIGHT", "KEY_HOME", "KEY_END", "KEY_F1"}

KeyPress(keys) == \E ch \in keys : EditorCall(ch, key_press(Editor, ch))

\* the redraw timer fires
Redraw ==
    /\ ed.timers # << >>
    /\ EditorCall(Head(ed.timers).callback.name, fire_timer(Editor, ed.now))

Resize ==
    \E nl \in ScreenLines, nc \in ScreenCols :
        EditorCall("resize", Editor_resize(Editor, nl, nc))

(***************************************************************************)
(* SpecMotion: an editor that opened a file, under the keys that move the  *)
(* cursor, redraws and resizes.                                            *)
(***************************************************************************)
\* most lines of a file opened under SpecMotion
MaxRows == 3

\* the files opened: up to MaxRows lines taken in turn, from any of them
\* on, from a long line, a short one, one with a double-width character
\* and an empty one
MotionTexts == << <<"a", "a", "a">>, <<"a">>, <<WIDE, "a">>, << >> >>
MotionFiles ==
    { TerminatedFile([i \in 1..n |-> MotionTexts[((k + i) % Len(MotionTexts)) + 1]]) :
        k \in 1..Len(MotionTexts), n \in 0..MaxRows }

EditorInit(files) ==
    /\ \E f \in files, nl \in ScreenLines, nc \in ScreenCols :
          LET e == Editor_open(NewEditor(nl, nc), f) IN
          /\ doc = e.document
          /\ ed = EditorFields(e)
    /\ err = FALSE
    /\ last = "init"
    /\ line = Null
    /\ pre = Null
    /\ prev = "none"
    /\ step = 0
    /\ app = Null

MotionInit == EditorInit(MotionFiles) /\ trace = Null

MotionNext ==
    \/ KeyPress(MotionKeys)
    \/ Redraw
    \/ Resize

SpecMotion == MotionInit /\ [][MotionNext]_vars

\* the text window
WinRows == ed.n_lines - RESERVED_ROWS
WinCols == ed.n_cols - RESERVED_COLS

\* the cursor cell is inside the window at the scroll position
CursorVisible ==
    LET cc == cursor_cell(doc) IN
    /\ ed.scroll.row <= cc.row
    /\ cc.row < ed.scroll.row + WinRows
    /\ ed.scroll.col <= cc.col
    /\ cc.col < ed.scroll.col + WinCols

\* C4: after any sequence of cursor-moving operations followed by
\* _update_scroll for a window of at least one row and one column, the
\* cursor cell is inside the window: scroll.row <= row < scroll.row +
\* win_rows and scroll.col <= col < scroll.col + win_cols.
C4_ScrollContainment ==
    (last = "_redraw" /\ WinRows >= 1 /\ WinCols >= 1) => CursorVisible

\* the window was scrolled down and right to show the cursor
C4_Witness ==
    /\ last = "_redraw"
    /\ WinRows = 1
    /\ WinCols = 1
    /\ ed.scroll = CellLocation(2, 3)
    /\ cursor_cell(doc) = CellLocation(2, 3)
    /\ CursorVisible

PageLines(n_lines) == Max(1, n_lines - RESERVED_ROWS)

\* C24: page down moves the cursor down max(1, n_lines - 3) lines, stopping
\* at the end of the document, and forces the scroll row to the cursor's
\* new row, which is then the top visible row; page up moves the cursor up
\* as many lines, stopping at line 0, and forces the scroll so that after
\* the scroll update that follows the cursor's new row is the bottom
\* visible row (the last row of the window, or as near to it as a scroll
\* row of 0 allows).
C24_PageMotion ==
    [][/\ last' = "KEY_NPAGE"
            => /\ doc'.cursor.line =
                    Min(Len(doc.lines), doc.cursor.line + PageLines(ed.n_lines))
               /\ ed'.scroll.row = doc'.cursor.line
       /\ last' = "KEY_PPAGE"
            => doc'.cursor.line = Max(0, doc.cursor.line - PageLines(ed.n_lines))
       /\ (last = "KEY_PPAGE" /\ last' = "_redraw" /\ WinRows >= 1)
            => ed'.scroll.row = Max(0, doc.cursor.line - WinRows + 1)]_vars

(***************************************************************************)
(* SpecEdit: an editor that opened a file, under the keys that edit and    *)
(* the keys that move, redraws and resizes.  pre holds the scroll position *)
(* the editor had before the call made last.                               *)
(***************************************************************************)
\* the keys pressed: a character, enter, backspace and the motions
EditKeys ==
    {"a", "KEY_ENTER", "KEY_BACKSPACE", "KEY_LEFT", "KEY_RIGHT", "KEY_UP",
     "KEY_DOWN", "KEY_HOME", "KEY_END", "KEY_NPAGE", "KEY_PPAGE"}

\* the files opened: lines of single-width characters
TypedFiles == Files({"a"}, MaxLines, MaxChars)

\* the screen sizes, lines by columns: text windows of 0 x 2, 1 x 0, 1 x 1
\* and 2 x 2
EditScreens == { <<3, 4>>, <<4, 2>>, <<4, 3>>, <<5, 4>> }

EditInit ==
    /\ \E f \in TypedFiles, size \in EditScreens :
          LET e == Editor_open(NewEditor(size[1], size[2]), f) IN
          /\ doc = e.document
          /\ ed = EditorFields(e)
          /\ pre = e.scroll
    /\ err = FALSE
    /\ last = "init"
    /\ line = Null
    /\ prev = "none"
    /\ step = 0
    /\ app = Null
    /\ trace = Null

\* a call of a method of the editor with outcome r, taken while the
\* document stays within the bounds
EditStep(name, r) ==
    /\ ~err
    /\ IF Raised(r) THEN TRUE ELSE Fits(r.document)
    /\ last' = name
    /\ err' = Raised(r)
    /\ doc' = IF Raised(r) THEN doc ELSE r.document
    /\ ed' = IF Raised(r) THEN ed ELSE EditorFields(r)
    /\ pre' = ed.scroll
    /\ UNCHANGED <<line, prev, step, app, trace>>

EditKeyPress == \E ch \in EditKeys : EditStep(ch, key_press(Editor, ch))

\* the redraw timer fires
EditRedraw ==
    /\ ed.timers # << >>
    /\ EditStep(Head(ed.timers).callback.name, fire_timer(Editor, ed.now))

EditResize ==
    \E size \in EditScreens :
        EditStep("resize", Editor_resize(Editor, size[1], size[2]))

EditNext ==
    \/ EditKeyPress
    \/ EditRedraw
    \/ EditResize

SpecEdit == EditInit /\ [][EditNext]_vars

\* C21: after any sequence of key presses that insert characters and
\* newlines, delete backwards (joining lines included) and move the cursor,
\* followed by _update_scroll for a window of at least one row and one
\* column, the cursor cell is inside [scroll, scroll + extent) on both axes.
C21_VisibleAfterEdits ==
    (last = "_redraw" /\ WinRows >= 1 /\ WinCols >= 1)
        => LET cc == cursor_cell(doc) IN
           /\ cc.row \in ed.scroll.row..(ed.scroll.row + WinRows - 1)
           /\ cc.col \in ed.scroll.col..(ed.scroll.col + WinCols - 1)

\* the last scroll position on an axis that still shows the end of the
\* document in a window of the given extent
ScrollLimit(document_extent, extent) == Max(0, document_extent - extent + 1)

\* C22: after every _update_scroll, on each axis 0 <= scroll <=
\* max(0, document_extent - extent + 1), document_extent being the line
\* count for rows and max_col for columns; and with an extent below 1 the
\* scroll on that axis is 0, whatever the scroll before (one forced by a
\* page move included) and the cursor.
C22_ScrollClamped ==
    last = "_redraw" =>
        /\ 0 <= ed.scroll.row
        /\ ed.scroll.row <= ScrollLimit(Len(doc.lines), WinRows)
        /\ 0 <= ed.scroll.col
        /\ ed.scroll.col <= ScrollLimit(doc.max_col, WinCols)
        /\ WinRows < 1 => ed.scroll.row = 0
        /\ WinCols < 1 => ed.scroll.col = 0

\* a window without rows: the scroll row a page move had forced to 2 is 0
\* again, and the scroll column, 2 before, is clamped to the limit 1 of a
\* window two columns wide on a document two columns wide
C22_Witness ==
    /\ last = "_redraw"
    /\ WinRows = 0
    /\ WinCols = 2
    /\ doc.max_col = 2
    /\ pre = CellLocation(2, 2)
    /\ ed.scroll = CellLocation(0, 1)

\* C23: _update_scroll leaves the scroll of an axis as it is when the
\* cursor cell is inside [scroll, scroll + extent) on that axis and the
\* scroll is within the limit of the end of the document; and a second
\* _update_scroll with the same arguments gives the scroll of the first.
C23_MinimalAdjustment ==
    [][last' = "_redraw" =>
          LET cc == cursor_cell(doc) IN
          /\ (/\ ed.scroll.row <= cc.row
              /\ cc.row < ed.scroll.row + WinRows
              /\ ed.scroll.row <= ScrollLimit(Len(doc.lines), WinRows))
                => ed'.scroll.row = ed.scroll.row
          /\ (/\ ed.scroll.col <= cc.col
              /\ cc.col < ed.scroll.col + WinCols
              /\ ed.scroll.col <= ScrollLimit(doc.max_col, WinCols))
                => ed'.scroll.col = ed.scroll.col
          /\ update_scroll(Editor', cc, WinRows, WinCols).scroll = ed'.scroll]_vars

\* a redraw left a scroll position that is not the origin as it was: the
\* cursor cell was inside the window
C23_Witness ==
    /\ last = "_redraw"
    /\ WinRows >= 1
    /\ WinCols >= 1
    /\ ed.scroll.row > 0
    /\ ed.scroll.col > 0
    /\ pre = ed.scroll
    /\ CursorVisible

\* the texts without the character at index c (0-based) of line l (0-based)
WithoutChar(texts, l, c) ==
    [texts EXCEPT ![l + 1] = SubSeq(@, 1, c) \o SubSeq(@, c + 2, Len(@))]

\* the texts with the lines l - 1 and l (0-based) made one
WithoutBreak(texts, l) ==
    (SubSeq(texts, 1, l - 1) \o << texts[l] \o texts[l + 1] >>)
        \o SubSeq(texts, l + 2, Len(texts))

\* C29: backspace removes nothing at or after the place the cursor was at:
\* at (0, 0) it leaves lines and cursor as they are; elsewhere it removes
\* the character before the cursor, or at char 0 of a line the line break
\* before it, and leaves the cursor where the removed unit was (from the
\* virtual line, whose break has no line after it to join, the cursor goes
\* to the end of the last line and the texts stay).
C29_Backspace ==
    [][last' = "KEY_BACKSPACE" =>
          LET l == doc.cursor.line
              c == doc.cursor.char
              old == TextsOf(doc.lines)
              new == TextsOf(doc'.lines)
          IN  /\ ~err'
              /\ IF l = 0 /\ c = 0
                 THEN new = old /\ doc'.cursor = doc.cursor
                 ELSE IF l = Len(old)
                 THEN new = old /\ doc'.cursor = DocumentLocation(l - 1, Len(old[l]))
                 ELSE IF c = 0
                 THEN /\ new = WithoutBreak(old, l)
                      /\ doc'.cursor = DocumentLocation(l - 1, Len(old[l]))
                 ELSE /\ new = WithoutChar(old, l, c - 1)
                      /\ doc'.cursor = DocumentLocation(l, c - 1)]_vars

(***************************************************************************)
(* SpecSched: the editor on its run loop with a clock.  An iteration of    *)
(* the loop waits for input until the earliest timer is due: either input  *)
(* arrives first and is dispatched, or the wait times out and the earliest *)
(* timer is popped and invoked.  A test registers timers of its own, the   *)
(* n-th of them with the callback Callback("test", n).                     *)
(***************************************************************************)
\* the clock values and the test timers of the model
MaxClock == 3
MaxTimers == 3

\* the delays timers are registered with
Delays == {0, 1, 2}
SchedKeys == {"KEY_RIGHT", "KEY_LEFT", CTRL_Q}
SchedLines == {4}
SchedCols == {3, 4}

SchedInit ==
    /\ LET e == Editor_open(NewEditor(4, 3), <<<<"a", NL>>>>) IN
          /\ doc = e.document
          /\ ed = EditorFields(e)
    /\ trace = [added |-> << >>, fired |-> << >>]
    /\ err = FALSE
    /\ last = "init"
    /\ line = Null
    /\ pre = Null
    /\ prev = "none"
    /\ step = 0
    /\ app = Null

\* the clock values at which the wait of an iteration can return an input
\* event: from now to the deadline of the earliest timer
ArrivalTimes ==
    IF ed.timers = << >> THEN ed.now..MaxClock
    ELSE ed.now..Max(ed.now, Head(ed.timers).deadline)

\* add_timer(delay, callback) called by a test with its next callback
AddTimer ==
    \E delay \in Delays :
        /\ Len(trace.added) < MaxTimers
        /\ ed.now + delay <= MaxClock
        /\ EditorStep("add_timer",
              add_timer(Editor, delay, Callback("test", Len(trace.added) + 1)))
        /\ trace' = [trace EXCEPT !.added = Append(@, ed.now + delay)]

\* redraw() called
RequestRedraw ==
    /\ EditorStep("redraw", Editor_redraw(Editor))
    /\ UNCHANGED trace

\* an iteration whose wait times out: the earliest timer fires
LoopTimer ==
    /\ ~ed.exit_flag
    /\ ed.timers # << >>
    /\ LET t == Max(ed.now, Head(ed.timers).deadline)
           cb == Head(ed.timers).callback
       IN  /\ EditorStep(cb.name, fire_timer(Editor, t))
           /\ trace' = IF cb.name = "test"
                       THEN [trace EXCEPT !.fired = Append(@, [n |-> cb.n, at |-> t])]
                       ELSE trace

\* an iteration whose wait returns a key
LoopKey ==
    \E ch \in SchedKeys, t \in ArrivalTimes :
        /\ ~ed.exit_flag
        /\ EditorStep(ch, key_press([Editor EXCEPT !.now = t], ch))
        /\ UNCHANGED trace

\* an iteration whose wait returns a resize
LoopResize ==
    \E nl \in SchedLines, nc \in SchedCols, t \in ArrivalTimes :
        /\ ~ed.exit_flag
        /\ EditorStep("resize", Editor_resize([Editor EXCEPT !.now = t], nl, nc))
        /\ UNCHANGED trace

SchedNext ==
    \/ AddTimer
    \/ RequestRedraw
    \/ LoopTimer
    \/ LoopKey
    \/ LoopResize

SpecSched == SchedInit /\ [][SchedNext]_vars

\* the deadline of the n-th test timer
DeadlineOf(n) == trace.added[n]

\* C13: the test timers fire in non-decreasing order of deadline, those of
\* one deadline in the order they were registered (so T1 with delay 0
\* registered before T2 with a later deadline fires before T2), and none
\* fires at a clock value before its deadline.
C13_TimerOrder ==
    /\ \A i \in 1..Len(trace.fired) :
          trace.fired[i].at >= DeadlineOf(trace.fired[i].n)
    /\ \A i, j \in 1..Len(trace.fired) :
          i < j =>
              LET a == trace.fired[i]
                  b == trace.fired[j]
              IN  \/ DeadlineOf(a.n) < DeadlineOf(b.n)
                  \/ DeadlineOf(a.n) = DeadlineOf(b.n) /\ a.n < b.n

\* three timers fired: the first registered has the latest deadline and
\* fired last, the other two share a deadline and fired in registration
\* order
C13_Witness ==
    /\ Len(trace.fired) = 3
    /\ DeadlineOf(1) > DeadlineOf(2)
    /\ DeadlineOf(2) = DeadlineOf(3)
    /\ trace.fired[1].n = 2
    /\ trace.fired[2].n = 3
    /\ trace.fired[3].n = 1

\* how many redraw timers are pending
RedrawTimers(timers) ==
    Cardinality({ i \in 1..Len(timers) : timers[i].callback.name = "_redraw" })

\* at most one redraw timer is pending, and the flag tells whether one is
Coalesced(e) ==
    /\ RedrawTimers(e.timers) <= 1
    /\ e.redraw_scheduled <=> RedrawTimers(e.timers) = 1

\* C14: at every moment at most one redraw timer is pending and
\* _redraw_scheduled is true exactly when one is; a redraw request (redraw
\* itself, a key press, a resize) leaves exactly one redraw timer pending
\* however many requests came before it, the firing of the redraw timer
\* leaves none, and the request after that schedules a new one.
C14_RedrawCoalescing ==
    [][/\ Coalesced(ed) /\ Coalesced(ed')
       /\ (last' \in {"redraw", "resize"} \cup SchedKeys)
              => RedrawTimers(ed'.timers) = 1
       /\ last' = "_redraw"
              => RedrawTimers(ed.timers) = 1 /\ RedrawTimers(ed'.timers) = 0]_vars

\* redraw was asked for again while its timer, registered before a test
\* timer of the same deadline, was still pending
C14_Witness ==
    /\ last = "redraw"
    /\ Len(ed.timers) = 2
    /\ ed.timers[1].callback.name = "_redraw"
    /\ ed.timers[2].callback.name = "test"
    /\ ed.timers[1].deadline = ed.timers[2].deadline
    /\ ed.redraw_scheduled

\* the test timers still queued
QueuedTests ==
    { ed.timers[i].callback.n :
        i \in { j \in 1..Len(ed.timers) : ed.timers[j].callback.name = "test" } }

\* C30: an iteration of the run loop whose wait times out pops and invokes
\* the earliest timer only: the timers behind it, those due at the same
\* time included, are all still queued after it, in their order; and a
\* timer that fired is queued no more and fires no second time.
C30_OneTimerPerIteration ==
    [][last' \in {"test", "_redraw"} =>
          /\ ed.timers # << >>
          /\ last' = Head(ed.timers).callback.name
          /\ ed'.timers = Tail(ed.timers)
          /\ Len(trace'.fired) <= Len(trace.fired) + 1
          /\ \A i \in 1..Len(trace'.fired) :
                /\ trace'.fired[i].n \notin QueuedTests'
                /\ \A j \in 1..Len(trace'.fired) :
                      trace'.fired[i].n = trace'.fired[j].n => i = j]_vars

\* two test timers were due at the same time: the first has fired and the
\* second is still queued, its deadline passed
C30_Witness ==
    /\ last = "test"
    /\ Len(trace.fired) = 1
    /\ ed.timers # << >>
    /\ Head(ed.timers).callback.name = "test"
    /\ Head(ed.timers).deadline = DeadlineOf(trace.fired[1].n)
    /\ Head(ed.timers).deadline <= ed.now

(***************************************************************************)
(* SpecSchedFair: the run loop kept running.  While a timer is pending the *)
(* loop takes its turns (its wait returns: input, or the timeout), and     *)
(* time passes: input does not arrive for ever at one and the same clock   *)
(* value while the earliest timer is not yet due.  trace.added counts the  *)
(* test timers registered, trace.fired holds those that fired and          *)
(* trace.dispatched those pending when an input event was dispatched.      *)
(***************************************************************************)
FairInit ==
    /\ LET e == Editor_open(NewEditor(4, 3), <<<<"a", NL>>>>) IN
          /\ doc = e.document
          /\ ed = EditorFields(e)
    /\ trace = [added |-> 0, fired |-> {}, dispatched |-> {}]
    /\ err = FALSE
    /\ last = "init"
    /\ line = Null
    /\ pre = Null
    /\ prev = "none"
    /\ step = 0
    /\ app = Null

\* a step of the loop with the result r of its handler, computed once
FairStep(name, r, tr) ==
    /\ ~err
    /\ last' = name
    /\ err' = Raised(r)
    /\ doc' = IF Raised(r) THEN doc ELSE r.document
    /\ ed' = IF Raised(r) THEN ed ELSE EditorFields(r)
    /\ trace' = tr
    /\ UNCHANGED <<line, pre, prev, step, app>>

\* add_timer(delay, callback) called by a test with its next callback
FairAdd ==
    \E delay \in Delays :
        /\ ~ed.exit_flag
        /\ trace.added < MaxTimers - 1
        /\ ed.now + delay <= MaxClock
        /\ \E r \in {add_timer(Editor, delay, Callback("test", trace.added + 1))} :
              FairStep("add_timer", r, [trace EXCEPT !.added = @ + 1])

\* an iteration whose wait times out: the earliest timer fires
FairTimer ==
    /\ ~ed.exit_flag
    /\ ed.timers # << >>
    /\ \E t \in {Max(ed.now, Head(ed.timers).deadline)},
          cb \in {Head(ed.timers).callback} :
          \E r \in {fire_timer(Editor, t)} :
              FairStep(cb.name, r,
                       IF cb.name = "test"
                       THEN [trace EXCEPT !.fired = @ \cup {cb.n}]
                       ELSE trace)

\* an iteration whose wait returns a key: the key is dispatched
FairKey ==
    \E ch \in SchedKeys, t \in ArrivalTimes :
        /\ ~ed.exit_flag
        /\ \E r \in {key_press([Editor EXCEPT !.now = t], ch)} :
              FairStep(ch, r, [trace EXCEPT !.dispatched = @ \cup QueuedTests])

FairNext ==
    \/ FairAdd
    \/ FairTimer
    \/ FairKey

\* a turn of the loop while a timer is pending
Turn == ed.timers # << >> /\ (FairTimer \/ FairKey)

\* a turn of the loop at a later clock value: the wait of the loop lasts
\* until the earliest timer is due at the latest
Advance ==
    /\ ed.timers # << >>
    /\ Head(ed.timers).deadline > ed.now
    /\ (FairTimer \/ FairKey)
    /\ ed'.now > ed.now

SpecSchedFair ==
    FairInit /\ [][FairNext]_vars /\ WF_vars(Turn) /\ SF_vars(Advance)

\* the n-th test timer is registered and has not fired
TestPending(n) ==
    /\ n <= trace.added
    /\ n \notin trace.fired

TestFired(n) == n \in trace.fired

\* every timer that is pending fires, unless quit is called: no timer is
\* pending for ever (a timer pending now is, at some later time, pending no
\* more, and a timer leaves the queue by firing only)
TimersFire ==
    /\ \A n \in 1..MaxTimers : []<>(~TestPending(n) \/ ed.exit_flag)
    /\ []<>(~ed.redraw_scheduled \/ ed.exit_flag)

\* the dispatch of an input event leaves every pending timer queued, in
\* order; and a redraw timer at the head of the queue fires in the first
\* iteration whose wait times out, at the clock value of that iteration
TimersKept ==
    [][/\ last' \in SchedKeys
            => \E f \in [1..Len(ed.timers) -> 1..Len(ed'.timers)] :
                  /\ \A i \in 1..Len(ed.timers) : ed'.timers[f[i]] = ed.timers[i]
                  /\ \A i, j \in 1..Len(ed.timers) : i < j => f[i] < f[j]
       /\ (last' \in {"test", "_redraw"}
              /\ ed.timers # << >>
              /\ Head(ed.timers).callback.name = "_redraw")
            => last' = "_redraw" /\ ed'.now = ed.now]_vars

\* C31 as stated: a timer pending when an input event is dispatched stays
\* queued, and every timer added (the zero-delay redraw timer too) fires
\* in the end if the loop keeps running and quit is not called, input
\* events arriving all the time or not; a redraw requested with nothing
\* else pending runs in the next iteration.
C31_NoStarvation_Original == TimersKept /\ TimersFire

\* C31 (amended): a timer pending when an input event is dispatched stays
\* queued, and every timer added (the zero-delay redraw timer too) fires
\* in the end if the loop keeps running, quit is not called and the wait
\* of the loop does not return an input event every time a timer is
\* pending; a redraw requested with nothing else pending runs in the next
\* iteration.
C31_NoStarvation == TimersKept /\ (WF_vars(FairTimer) => TimersFire)

\* a test timer that was pending when a key was dispatched has fired, after
\* the redraw timer of that key
C31_Witness ==
    /\ last = "test"
    /\ trace.fired \cap trace.dispatched # {}
    /\ ~ed.redraw_scheduled
    /\ ~ed.exit_flag

(***************************************************************************)
(* Application (app.py).  The object is a record                           *)
(*   [exit_done, queue, main, started, task, thread, read, delivered]      *)
(* exit_done: _exit_future is done; queue: _event_queue; main: where       *)
(* run_until_exit is; started: the start callback; task: the task running  *)
(* _event_loop; thread: where the executor thread running                  *)
(* _curses_event_loop is.  read and delivered record the keys get_wch      *)
(* returned and the events event_cb was called with.                       *)
(***************************************************************************)
\* most keys get_wch returns in a run
MaxKeys == 3

\* Application.__init__
NewApplication ==
    [exit_done |-> FALSE,
     queue |-> << >>,
     main |-> "new",
     started |-> "none",
     task |-> "none",
     thread |-> "none",
     read |-> << >>,
     delivered |-> << >>]

\* what get_wch returns: a character as a string, a named key (arrows,
\* KEY_RESIZE, ...) as an integer
IsIntKey(key) == key \in IntKeys

\* curses_key_to_event: no event for an integer key
NoEvent == [none |-> TRUE]
curses_key_to_event(key) ==
    IF IsIntKey(key) THEN NoEvent ELSE [type |-> "KEY_PRESS", key |-> key]

\* Application.exit: set the result of the exit future, which raises
\* InvalidStateError when the future is done already
InvalidStateError == [exc |-> "InvalidStateError"]
exit(a) == IF a.exit_done THEN InvalidStateError ELSE [a EXCEPT !.exit_done = TRUE]

\* what a callback given to run_until_exit does when called: it returns,
\* calls exit() and returns, or raises
Outcomes == {"return", "exit", "raise"}

\* the application after a callback with the given outcome, or the
\* exception the callback ends with
after_callback(a, outcome) ==
    CASE outcome = "return" -> a
      [] outcome = "exit" -> exit(a)
      [] OTHER -> [exc |-> "Exception"]

\* run_until_exit up to run_until_complete(_exit_future): the executor
\* thread is started, the start callback and the event task are scheduled
run_until_exit(a) ==
    [a EXCEPT !.main = "run", !.thread = "test",
              !.started = "scheduled", !.task = "get"]

\* the loop runs the start callback; an exception of it goes to the loop's
\* exception handler and no further
run_started_cb(a, outcome) ==
    LET r == after_callback(a, outcome) IN
    [(IF Raised(r) THEN a ELSE r) EXCEPT !.started = "done"]

\* the test of the while loop of _curses_event_loop
thread_test(a) ==
    [a EXCEPT !.thread = IF a.exit_done THEN "done" ELSE "poll"]

\* get_wch timing out: the except clause, continue
thread_no_input(a) == [a EXCEPT !.thread = "test"]

\* the body of the loop putting the event at the head of the queue
thread_key_at_head(a, key) ==
    LET event == curses_key_to_event(key) IN
    [a EXCEPT !.thread = "test",
              !.read = Append(@, key),
              !.queue = IF event = NoEvent THEN @ ELSE <<event>> \o @]

\* get_wch returning a key: the body of the loop of _curses_event_loop
thread_key(a, key) ==
    LET event == curses_key_to_event(key) IN
    [a EXCEPT !.thread = "test",
              !.read = Append(@, key),
              !.queue = IF event = NoEvent THEN @ ELSE Append(@, event)]

\* one turn of the loop of _event_loop: the get returns the first event
\* of the queue and event_cb is called with it; an exception of event_cb
\* ends the task
event_loop_step(a, outcome) ==
    LET a1 == [a EXCEPT !.queue = Tail(@), !.delivered = Append(@, Head(a.queue))]
        r == after_callback(a1, outcome)
    IN  IF Raised(r) THEN [a1 EXCEPT !.task = "failed"] ELSE r

\* the get of _event_loop on an empty queue: the task is suspended
event_loop_wait(a) == [a EXCEPT !.task = "waiting"]

\* a put on the queue wakes the task suspended in get
event_loop_wake(a) == [a EXCEPT !.task = "get"]

\* run_until_complete(_exit_future) returns, the task is cancelled and
\* run to completion: run_until_exit returns, or raises what the task
\* ended with
run_until_exit_end(a) ==
    IF a.task = "failed"
    THEN [a EXCEPT !.main = "raised"]
    ELSE [a EXCEPT !.main = "returned", !.task = "cancelled"]

(***************************************************************************)
(* SpecApp: an Application under run_until_exit with a start callback and  *)
(* an event callback, its executor thread and its loop interleaved.        *)
(***************************************************************************)
AppKeys == {"a", "b", "KEY_UP"}

AppInit ==
    /\ app = NewApplication
    /\ doc = NewDocument("TextLine")
    /\ err = FALSE
    /\ last = "init"
    /\ line = Null
    /\ pre = Null
    /\ prev = "none"
    /\ step = 0
    /\ ed = Null
    /\ trace = Null

AppStep(name, a) ==
    /\ app' = a
    /\ last' = name
    /\ UNCHANGED <<doc, err, line, pre, prev, step, ed, trace>>

RunUntilExit ==
    /\ app.main = "new"
    /\ AppStep("run_until_exit", run_until_exit(app))

StartedCb ==
    \E outcome \in Outcomes :
        /\ app.main = "run"
        /\ app.started = "scheduled"
        /\ AppStep("started_cb", run_started_cb(app, outcome))

ThreadTest ==
    /\ app.thread = "test"
    /\ AppStep("thread test", thread_test(app))

ThreadNoInput ==
    /\ app.thread = "poll"
    /\ AppStep("get_wch (no input)", thread_no_input(app))

ThreadKey ==
    \E key \in AppKeys :
        /\ app.thread = "poll"
        /\ Len(app.read) < MaxKeys
        /\ AppStep("get_wch", thread_key(app, key))

\* the task suspends in get when the queue is empty
EventLoopWait ==
    /\ app.main = "run"
    /\ app.started = "done"
    /\ app.task = "get"
    /\ app.queue = << >>
    /\ AppStep("get (empty)", event_loop_wait(app))

\* the loop resumes the suspended task after a put; once the exit future
\* is done the callback that stops the loop is ahead of this one
EventLoopWake ==
    /\ app.main = "run"
    /\ app.task = "waiting"
    /\ app.queue # << >>
    /\ ~app.exit_done
    /\ AppStep("get (woken)", event_loop_wake(app))

\* the task runs after the start callback, while the loop runs; its get
\* returns at once while the queue holds an event, whether or not the exit
\* future is done
EventLoopStep ==
    \E outcome \in Outcomes :
        /\ app.main = "run"
        /\ app.started = "done"
        /\ app.task = "get"
        /\ app.queue # << >>
        /\ AppStep("event_cb", event_loop_step(app, outcome))

\* the loop stops once the exit future is done and the task is suspended
\* in get or has ended
RunUntilExitEnd ==
    /\ app.main = "run"
    /\ app.started = "done"
    /\ app.exit_done
    /\ app.task \in {"waiting", "failed"}
    /\ AppStep("run_until_exit (end)", run_until_exit_end(app))

AppNext ==
    \/ RunUntilExit
    \/ StartedCb
    \/ ThreadTest
    \/ ThreadNoInput
    \/ ThreadKey
    \/ EventLoopWait
    \/ EventLoopWake
    \/ EventLoopStep
    \/ RunUntilExitEnd

SpecApp == AppInit /\ [][AppNext]_vars

\* C16: an error raised by the event callback ends run_until_exit with
\* that error: the loop is never left waiting for the exit future with the
\* task that calls the handler ended by the error.
C16_HandlerErrorPropagates ==
    (app.task = "failed" /\ ~app.exit_done) => app.main = "raised"

\* C17: exit() called during a callback only sets the exit flag; once it
\* is set no further event callback is dispatched, and the flag stays set.
C17_QuitCooperative ==
    [][app.exit_done => /\ app'.exit_done
                        /\ app'.delivered = app.delivered]_vars

\* the keys of the events on the queue
QueuedKeys == [i \in 1..Len(app.queue) |-> app.queue[i].key]
DeliveredKeys == [i \in 1..Len(app.delivered) |-> app.delivered[i].key]

\* C18: every key get_wch returns while the application runs, a character
\* or a named key, is a key event given to the event callback or on its
\* way to it on the queue.
C18_EveryKeyDelivered == DeliveredKeys \o QueuedKeys = app.read

\* the character keys among the keys read, in the order they were read
CharKeysRead == SelectSeq(app.read, LAMBDA key : ~IsIntKey(key))

\* the steps of the executor thread
ThreadSteps == {"thread test", "get_wch (no input)", "get_wch"}

\* C32: the events made from the keys the thread reads reach the event
\* callback through the queue only.  A step of the thread changes nothing
\* of the application but the queue, at whose end it puts at most one
\* event; the event callback is called by the task on the loop, with the
\* event at the head of the queue, which it takes off the queue; and the
\* events given to the callback followed by those on the queue are the
\* events of the character keys read, each once, in the order read.
C32_QueueDelivery ==
    [][/\ last' \in ThreadSteps =>
             /\ \A f \in {"exit_done", "main", "started", "task", "delivered"} :
                   app'[f] = app[f]
             /\ \/ app'.queue = app.queue
                \/ /\ Len(app'.queue) = Len(app.queue) + 1
                   /\ SubSeq(app'.queue, 1, Len(app.queue)) = app.queue
       /\ app'.delivered # app.delivered =>
             /\ last' = "event_cb"
             /\ app.task = "get" /\ app.main = "run"
             /\ app.queue # << >>
             /\ app'.delivered = Append(app.delivered, Head(app.queue))
             /\ app'.queue = Tail(app.queue)
       /\ (DeliveredKeys \o QueuedKeys = CharKeysRead)']_vars

\* two different characters were read with a named key between them, the
\* first was given to the event callback and the second is on the queue
C32_Witness ==
    /\ Len(app.read) = 3
    /\ IsIntKey(app.read[2])
    /\ ~IsIntKey(app.read[1]) /\ ~IsIntKey(app.read[3])
    /\ app.read[1] # app.read[3]
    /\ DeliveredKeys = <<app.read[1]>>
    /\ QueuedKeys = <<app.read[3]>>

(***************************************************************************)
(* SpecAppFair: SpecApp with the loop and the executor thread both kept    *)
(* running: the loop runs a callback that is ready, and get_wch returns a  *)
(* key or times out after 100 milliseconds.                                *)
(***************************************************************************)
LoopTurn ==
    \/ RunUntilExit
    \/ StartedCb
    \/ EventLoopWait
    \/ EventLoopWake
    \/ EventLoopStep
    \/ RunUntilExitEnd

ThreadTurn == ThreadTest \/ ThreadNoInput \/ ThreadKey

SpecAppFair ==
    AppInit /\ [][AppNext]_vars /\ WF_vars(LoopTurn) /\ WF_vars(ThreadTurn)

\* the application is shut down: run_until_exit has returned, the task is
\* cancelled and the thread has left its loop
ShutDown ==
    /\ app.main = "returned"
    /\ app.task = "cancelled"
    /\ app.thread = "done"

\* run_until_exit has ended, by returning or by raising, and the thread
\* has left its loop
Ended ==
    /\ app.main \in {"returned", "raised"}
    /\ app.thread = "done"

\* once exit() was called the thread finishes the poll it is in, if it is
\* in one, and starts no other
OneMorePoll ==
    [][(app.exit_done /\ app.thread # "poll") => app'.thread # "poll"]_vars

\* C33: once exit() was called, by the start callback or by an event
\* callback, run_until_exit returns in the end with the task cancelled, no
\* event is given to the event callback any more, and the thread starts no
\* poll after the one it is in, whatever events are queued or arrive.
C33_ShutdownTerminates ==
    /\ app.exit_done ~> ShutDown
    /\ [][app.exit_done => app'.delivered = app.delivered]_vars
    /\ OneMorePoll

=============================================================================
